---- MODULE Spec2Model ----
(***************************************************************************)
(* Model of language/e2e-tests/src/account.rs: the test-fixture Account    *)
(* (address + current keypair), AccountData (the account snapshot with     *)
(* balances, event handles, capabilities, role), the write-set synthesizer *)
(* to_writeset, and the raw/signed transaction builders.                   *)
(***************************************************************************)
EXTENDS Integers, Sequences, FiniteSets, TLC

VARIABLES
    accts,  \* the AccountData values alive, in order of construction
    born,   \* born[i]: the constructor of accts[i], the value it returned, and
            \* the currency codes newly added since, in the order of the calls
    out,    \* the last call: operation, account, arguments, result
    prev    \* the to_writeset call right before the last call, if it was one

vars == <<accts, born, out, prev>>

----------------------------------------------------------------------------
(* Bounds of the model *)

\* keypairs the OS random generator can hand out (KeyGen::from_os_rng)
NumKeys == 2
\* largest sequence number / initial event count given to a constructor
MaxCount == 1

GeneratedKeys == 1..NumKeys
Counts == 0..MaxCount
\* the event keys EventHandle::random_handle can draw
EventKeys == {1, 2}
Coins == {0, 1000000}
Bools == {TRUE, FALSE}

----------------------------------------------------------------------------
(* Option and Result values *)

None == [some |-> FALSE, val |-> <<>>]
Some(x) == [some |-> TRUE, val |-> x]

\* Option::unwrap / Result::unwrap: the value, or a panic that aborts the caller
Panic == [t |-> "panic", v |-> <<>>]
Returned(x) == [t |-> "returned", v |-> x]
unwrap(o) == IF o.some THEN Returned(o.val) ELSE Panic

----------------------------------------------------------------------------
(* Keys, authentication keys and addresses *)

Ed25519PrivateKey(k) == [secret |-> k]
Ed25519PublicKey(k) == [public |-> k]
Keypair(k) == [privkey |-> Ed25519PrivateKey(k), pubkey |-> Ed25519PublicKey(k)]

\* vm_genesis::GENESIS_KEYPAIR: one fixed keypair, distinct from generated ones
GENESIS_KEYPAIR == Keypair(0)

\* AuthenticationKey::ed25519(pubkey): a 32-byte digest of the public key; its
\* first half is the prefix, its second half the derived address
AuthenticationKey_ed25519(pubkey) ==
    [prefix |-> [kind |-> "auth_key_prefix", id |-> pubkey.public],
     derived_address |-> [kind |-> "derived", id |-> pubkey.public]]

AuthenticationKey_to_vec(ak) == <<ak.prefix, ak.derived_address>>

\* libra_types::account_address::from_public_key
from_public_key(pubkey) == AuthenticationKey_ed25519(pubkey).derived_address

association_address == [kind |-> "association_address", id |-> 0]
treasury_compliance_account_address ==
    [kind |-> "treasury_compliance_account_address", id |-> 0]

\* ed25519 verification: a signature checks against the public key of the
\* private key that made it, over the signed message
sign_message(privkey, message) == [signer |-> privkey.secret, message |-> message]
verify_signature(pubkey, message, signature) ==
    /\ signature.signer = pubkey.public
    /\ signature.message = message

----------------------------------------------------------------------------
(* Currency codes: Identifier values, ordered as strings *)

lbr_currency_code == "LBR"
coin1_currency_code == "Coin1"
coin2_currency_code == "Coin2"

\* the Ord of Identifier on the three codes: "Coin1" < "Coin2" < "LBR"
IdentifierOrder == <<coin1_currency_code, coin2_currency_code, lbr_currency_code>>
Codes == {IdentifierOrder[i] : i \in 1..Len(IdentifierOrder)}
IdentifierRank(c) == CHOOSE i \in 1..Len(IdentifierOrder) : IdentifierOrder[i] = c
IdentifierLess(a, b) == IdentifierRank(a) < IdentifierRank(b)

----------------------------------------------------------------------------
(* std::collections::BTreeMap<Identifier, Balance>: entries kept in        *)
(* ascending key order, one entry per key                                  *)

BTreeMap_new == <<>>

BTreeMap_keys(m) == {m[i].key : i \in 1..Len(m)}

BTreeMap_get(m, k) ==
    IF \E i \in 1..Len(m) : m[i].key = k
    THEN Some(m[CHOOSE i \in 1..Len(m) : m[i].key = k].value)
    ELSE None

\* insert: the entry of an equal key is replaced, a new key goes to its place
\* in the order
BTreeMap_insert(m, k, v) ==
    SelectSeq(m, LAMBDA e : IdentifierLess(e.key, k))
        \o <<[key |-> k, value |-> v]>>
        \o SelectSeq(m, LAMBDA e : IdentifierLess(k, e.key))

----------------------------------------------------------------------------
(* Move values (move_vm_types::values) and layouts (FatType)               *)

Value_u64(n) == [t |-> "u64", v |-> n]
Value_bool(b) == [t |-> "bool", v |-> b]
Value_address(a) == [t |-> "address", v |-> a]
Value_vector_u8(chunks) == [t |-> "vector_u8", v |-> chunks]
Value_vector_general(vals) == [t |-> "vector", v |-> vals]
Struct_pack(fields) == [t |-> "struct", v |-> fields]

FatType_U64 == [kind |-> "U64", of |-> <<>>]
FatType_Bool == [kind |-> "Bool", of |-> <<>>]
FatType_Address == [kind |-> "Address", of |-> <<>>]
FatType_U8 == [kind |-> "U8", of |-> <<>>]
FatType_Vector(ty) == [kind |-> "Vector", of |-> ty]
FatType_Struct(st) == [kind |-> "Struct", of |-> st]

FatStructType(module, name, is_resource, ty_args, layout) ==
    [module |-> module, name |-> name, is_resource |-> is_resource,
     ty_args |-> ty_args, layout |-> layout]

\* a u64 as its 8 little-endian bytes, and back
RECURSIVE le_bytes(_, _)
le_bytes(n, width) ==
    IF width = 0 THEN <<>>
    ELSE <<[t |-> "byte", v |-> n % 256]>> \o le_bytes(n \div 256, width - 1)

RECURSIVE from_le_bytes(_)
from_le_bytes(bytes) ==
    IF bytes = <<>> THEN 0 ELSE Head(bytes).v + 256 * from_le_bytes(Tail(bytes))

\* the bytes of an opaque chunk of a byte vector: an authentication-key half
\* (16 bytes) or an event key (24 bytes)
chunk_len(c) == IF c.kind = "event_key" THEN 24 ELSE 16
RECURSIVE chunks_len(_)
chunks_len(cs) == IF cs = <<>> THEN 0 ELSE chunk_len(Head(cs)) + chunks_len(Tail(cs))

\* Struct::simple_serialize: the value encoded field by field as the layout
\* directs; None when a value does not have the shape of its type
RECURSIVE serialize_value(_, _)
RECURSIVE serialize_seq(_, _)
serialize_value(val, ty) ==
    CASE ty.kind = "U64" /\ val.t = "u64" -> Some(le_bytes(val.v, 8))
      [] ty.kind = "Bool" /\ val.t = "bool" ->
            Some(<<[t |-> "byte", v |-> IF val.v THEN 1 ELSE 0]>>)
      [] ty.kind = "Address" /\ val.t = "address" ->
            Some(<<[t |-> "address", v |-> val.v]>>)
      [] ty.kind = "Vector" /\ ty.of.kind = "U8" /\ val.t = "vector_u8" ->
            Some(<<[t |-> "len", v |-> chunks_len(val.v)]>>
                 \o [i \in 1..Len(val.v) |-> [t |-> "chunk", v |-> val.v[i]]])
      [] ty.kind = "Vector" /\ ty.of.kind # "U8" /\ val.t = "vector" ->
            LET items == serialize_seq(val.v, [i \in 1..Len(val.v) |-> ty.of])
            IN  IF items.some
                THEN Some(<<[t |-> "len", v |-> Len(val.v)]>> \o items.val)
                ELSE None
      [] ty.kind = "Struct" /\ val.t = "struct" ->
            IF Len(val.v) = Len(ty.of.layout)
            THEN serialize_seq(val.v, ty.of.layout)
            ELSE None
      [] OTHER -> None

serialize_seq(vals, tys) ==
    IF vals = <<>> THEN Some(<<>>)
    ELSE LET h == serialize_value(Head(vals), Head(tys))
             r == serialize_seq(Tail(vals), Tail(tys))
         IN  IF h.some /\ r.some THEN Some(h.val \o r.val) ELSE None

simple_serialize(struct, ty) == serialize_value(struct, FatType_Struct(ty))

\* the inverse on a layout of one u64 field: the coin of a serialized Balance
simple_deserialize_u64_struct(bytes) ==
    IF Len(bytes) = 8 /\ \A i \in 1..8 : bytes[i].t = "byte"
    THEN Some(from_le_bytes(bytes))
    ELSE None

----------------------------------------------------------------------------
(* Storage paths and struct tags (libra_types::access_path)                *)

StructTag(module, name, type_params) ==
    [module |-> module, name |-> name, type_params |-> type_params]

AccountResource_struct_tag == StructTag("LibraAccount", "LibraAccount", <<>>)
event_handle_generator_struct_tag == StructTag("Event", "EventHandleGenerator", <<>>)
type_tag_for_currency_code(code) == StructTag(code, code, <<>>)
BalanceResource_struct_tag_for_currency(type_tag) ==
    StructTag("LibraAccount", "Balance", <<type_tag>>)

\* AccessPath::resource_access_path(ResourceKey): the address with the path
\* derived from the struct tag
AccessPath_resource_access_path(resource_key) ==
    [address |-> resource_key.address, path |-> <<"resource", resource_key.type_>>]

ResourceKey_new(address, tag) == [address |-> address, type_ |-> tag]

----------------------------------------------------------------------------
(* Account: the address and the current keypair                            *)

Account_with_keypair(privkey, pubkey) ==
    [addr |-> from_public_key(pubkey), privkey |-> privkey, pubkey |-> pubkey]

\* Account::new: the keypair comes from KeyGen::from_os_rng().generate_keypair()
Account_new(keypair) == Account_with_keypair(keypair.privkey, keypair.pubkey)

Account_new_genesis_account(address) ==
    [addr |-> address, privkey |-> GENESIS_KEYPAIR.privkey,
     pubkey |-> GENESIS_KEYPAIR.pubkey]

Account_new_association == Account_new_genesis_account(association_address)

Account_new_blessed_tc ==
    Account_new_genesis_account(treasury_compliance_account_address)

Account_address(self) == self.addr

Account_make_access_path(self, tag) ==
    AccessPath_resource_access_path(ResourceKey_new(self.addr, tag))

Account_make_account_access_path(self) ==
    Account_make_access_path(self, AccountResource_struct_tag)

Account_make_event_generator_access_path(self) ==
    Account_make_access_path(self, event_handle_generator_struct_tag)

\* a balance path that does not depend on the currency code
Account_make_balance_access_path_lbr(self, balance_currency_code) ==
    Account_make_access_path(self,
        BalanceResource_struct_tag_for_currency(
            type_tag_for_currency_code(lbr_currency_code)))

Account_make_balance_access_path(self, balance_currency_code) ==
    Account_make_access_path(self,
        BalanceResource_struct_tag_for_currency(
            type_tag_for_currency_code(balance_currency_code)))

\* a rotation that derives the account anew from the new public key
Account_rotate_key_rederive(self, privkey, pubkey) ==
    Account_with_keypair(privkey, pubkey)

Account_rotate_key(self, privkey, pubkey) ==
    [self EXCEPT !.privkey = privkey, !.pubkey = pubkey]

Account_auth_key(self) ==
    AuthenticationKey_to_vec(AuthenticationKey_ed25519(self.pubkey))

----------------------------------------------------------------------------
(* Raw and signed transactions (libra_types::transaction)                  *)

DEFAULT_EXPIRATION_TIME == 40000
TXN_RESERVED == 500000
LBR_NAME == "LBR"

Duration_from_secs(secs) == [never |-> FALSE, secs |-> secs]
\* Duration::new(u64::max_value(), 0): no expiration in practice
Duration_max == [never |-> TRUE, secs |-> 0]

Script_new(program, ty_args, args) ==
    [code |-> program, ty_args |-> ty_args, args |-> args]
TransactionPayload_Script(script) == [t |-> "Script", v |-> script]
TransactionPayload_Module(module) == [t |-> "Module", v |-> module]
TransactionPayload_WriteSet(writeset) == [t |-> "WriteSet", v |-> writeset]

\* RawTransaction::new: every field as given
RawTransaction_new(sender, sequence_number, payload, max_gas_amount, gas_unit_price, gas_currency_code, expiration_time) ==
    [sender |-> sender, sequence_number |-> sequence_number, payload |-> payload,
     max_gas_amount |-> max_gas_amount, gas_unit_price |-> gas_unit_price,
     gas_currency_code |-> gas_currency_code, expiration_time |-> expiration_time]

RawTransaction_new_script(sender, sequence_number, script, max_gas_amount, gas_unit_price, gas_currency_code, expiration_time) ==
    RawTransaction_new(sender, sequence_number, TransactionPayload_Script(script),
        max_gas_amount, gas_unit_price, gas_currency_code, expiration_time)

RawTransaction_new_module(sender, sequence_number, module, max_gas_amount, gas_unit_price, gas_currency_code, expiration_time) ==
    RawTransaction_new(sender, sequence_number, TransactionPayload_Module(module),
        max_gas_amount, gas_unit_price, gas_currency_code, expiration_time)

\* RawTransaction::new_change_set: a write-set transaction bypasses the VM; its
\* gas fields are fixed and it does not expire
RawTransaction_new_change_set(sender, sequence_number, change_set) ==
    RawTransaction_new(sender, sequence_number,
        TransactionPayload_WriteSet(change_set), 0, 0, LBR_NAME, Duration_max)

\* RawTransaction::sign: the signature of the private key over the raw
\* transaction, beside the public key handed in
RawTransaction_sign(raw, privkey, pubkey) ==
    Some([raw_txn |-> raw, public_key |-> pubkey,
          signature |-> sign_message(privkey, raw)])

SignedTransaction_sender(txn) == txn.raw_txn.sender
SignedTransaction_check_signature(txn) ==
    verify_signature(txn.public_key, txn.raw_txn, txn.signature)

----------------------------------------------------------------------------
(* Transaction builders of Account                                         *)

\* a builder for user transactions that hands every payload to RawTransaction::new
Account_create_raw_user_txn_generic(address, payload, sequence_number, max_gas_amount, gas_unit_price, gas_currency_code) ==
    RawTransaction_new(address, sequence_number, payload, max_gas_amount,
        gas_unit_price, gas_currency_code,
        Duration_from_secs(DEFAULT_EXPIRATION_TIME))

Account_create_raw_user_txn(address, payload, sequence_number, max_gas_amount, gas_unit_price, gas_currency_code) ==
    CASE payload.t = "WriteSet" ->
            RawTransaction_new_change_set(address, sequence_number, payload.v)
      [] payload.t = "Module" ->
            RawTransaction_new_module(address, sequence_number, payload.v,
                max_gas_amount, gas_unit_price, gas_currency_code,
                Duration_from_secs(DEFAULT_EXPIRATION_TIME))
      [] payload.t = "Script" ->
            RawTransaction_new_script(address, sequence_number, payload.v,
                max_gas_amount, gas_unit_price, gas_currency_code,
                Duration_from_secs(DEFAULT_EXPIRATION_TIME))

\* sign(..).unwrap().into_inner()
Account_sign(self, raw) == unwrap(RawTransaction_sign(raw, self.privkey, self.pubkey))

Account_create_user_txn(self, payload, sequence_number, max_gas_amount, gas_unit_price, gas_currency_code) ==
    Account_sign(self,
        Account_create_raw_user_txn(Account_address(self), payload, sequence_number,
            max_gas_amount, gas_unit_price, gas_currency_code))

\* a builder whose expiration moves with the sequence number
Account_create_raw_txn_impl_expiry_by_seq(sender, program, sequence_number, max_gas_amount, gas_unit_price, gas_currency_code) ==
    RawTransaction_new(sender, sequence_number, program, max_gas_amount,
        gas_unit_price, gas_currency_code,
        Duration_from_secs(DEFAULT_EXPIRATION_TIME + sequence_number))

Account_create_raw_txn_impl(sender, program, sequence_number, max_gas_amount, gas_unit_price, gas_currency_code) ==
    RawTransaction_new(sender, sequence_number, program, max_gas_amount,
        gas_unit_price, gas_currency_code,
        Duration_from_secs(DEFAULT_EXPIRATION_TIME))

\* a signed builder that always sends from the signer's own address
Account_create_signed_txn_impl_own_sender(self, sender, program, sequence_number, max_gas_amount, gas_unit_price, gas_currency_code) ==
    Account_sign(self,
        Account_create_raw_txn_impl(Account_address(self), program, sequence_number,
            max_gas_amount, gas_unit_price, gas_currency_code))

Account_create_signed_txn_impl(self, sender, program, sequence_number, max_gas_amount, gas_unit_price, gas_currency_code) ==
    Account_sign(self,
        Account_create_raw_txn_impl(sender, program, sequence_number,
            max_gas_amount, gas_unit_price, gas_currency_code))

Account_create_signed_txn_with_args(self, program, ty_args, args, sequence_number, max_gas_amount, gas_unit_price, gas_currency_code) ==
    Account_create_signed_txn_impl(self, Account_address(self),
        TransactionPayload_Script(Script_new(program, ty_args, args)),
        sequence_number, max_gas_amount, gas_unit_price, gas_currency_code)

Account_create_raw_txn_with_args(address, program, ty_args, args, sequence_number, max_gas_amount, gas_unit_price, gas_currency_code) ==
    Account_create_raw_txn_impl(address,
        TransactionPayload_Script(Script_new(program, ty_args, args)),
        sequence_number, max_gas_amount, gas_unit_price, gas_currency_code)

Account_create_signed_txn_with_args_and_sender(self, sender, program, ty_args, args, sequence_number, max_gas_amount, gas_unit_price, gas_currency_code) ==
    Account_create_signed_txn_impl(self, sender,
        TransactionPayload_Script(Script_new(program, ty_args, args)),
        sequence_number, max_gas_amount, gas_unit_price, gas_currency_code)

Account_create_raw_txn_with_args_and_sender(sender, program, ty_args, args, sequence_number, max_gas_amount, gas_unit_price, gas_currency_code) ==
    Account_create_raw_txn_impl(sender,
        TransactionPayload_Script(Script_new(program, ty_args, args)),
        sequence_number, max_gas_amount, gas_unit_price, gas_currency_code)

Account_signed_script_txn(self, script, sequence_number) ==
    Account_create_signed_txn_impl(self, Account_address(self),
        TransactionPayload_Script(script), sequence_number, TXN_RESERVED * 2, 0,
        LBR_NAME)

----------------------------------------------------------------------------
(* Balance, role, event handle generator, capabilities                     *)

Balance_new(coin) == [coin |-> coin]
Balance_coin(self) == self.coin
\* a balance value that loses the coin
Balance_to_value_zero(self) == Struct_pack(<<Value_u64(0)>>)

Balance_to_value(self) == Struct_pack(<<Value_u64(self.coin)>>)
Balance_type == FatStructType("LibraAccount", "Balance", TRUE, <<>>, <<FatType_U64>>)

AccountRoleSpecifiers ==
    <<"AssocRoot", "TreasuryCompliance", "DesignatedDealer", "Validator",
      "ValidatorOperator", "ParentVASP", "ChildVASP", "Unhosted">>
Roles == {AccountRoleSpecifiers[i] : i \in 1..Len(AccountRoleSpecifiers)}

\* ids with ParentVASP and ChildVASP exchanged
AccountRoleSpecifier_id_swapped(role) ==
    CASE role = "AssocRoot" -> 0
      [] role = "TreasuryCompliance" -> 1
      [] role = "DesignatedDealer" -> 2
      [] role = "Validator" -> 3
      [] role = "ValidatorOperator" -> 4
      [] role = "ParentVASP" -> 6
      [] role = "ChildVASP" -> 5
      [] role = "Unhosted" -> 7

AccountRoleSpecifier_id(role) ==
    CASE role = "AssocRoot" -> 0
      [] role = "TreasuryCompliance" -> 1
      [] role = "DesignatedDealer" -> 2
      [] role = "Validator" -> 3
      [] role = "ValidatorOperator" -> 4
      [] role = "ParentVASP" -> 5
      [] role = "ChildVASP" -> 6
      [] role = "Unhosted" -> 7

\* Result<T, Error>
Ok(x) == [ok |-> TRUE, val |-> <<x>>, err |-> <<>>]
Err(e) == [ok |-> FALSE, val |-> <<>>, err |-> e]

\* a parser that falls back to AccountRoleSpecifier::default()
AccountRoleSpecifier_from_str_or_default(s) ==
    CASE s = "empty" -> Ok("AssocRoot")
      [] s = "unhosted" -> Ok("Unhosted")
      [] s = "vasp" -> Ok("ParentVASP")
      [] OTHER -> Ok("ParentVASP")

\* the error carries the message
\* format!("Unrecognized account type specifier {} found.", other)
AccountRoleSpecifier_from_str(s) ==
    CASE s = "empty" -> Ok("AssocRoot")
      [] s = "unhosted" -> Ok("Unhosted")
      [] s = "vasp" -> Ok("ParentVASP")
      [] OTHER -> Err(<<"Unrecognized account type specifier ", s, " found.">>)

AccountRole_new(self_address, account_specifier) ==
    [self_address |-> self_address, account_specifier |-> account_specifier]

EventHandleGenerator_new_with_event_count(addr, counter) ==
    [counter |-> counter, addr |-> addr]
EventHandleGenerator_to_value(self) ==
    Struct_pack(<<Value_u64(self.counter), Value_address(self.addr)>>)
EventHandleGenerator_type ==
    FatStructType("Event", "EventHandleGenerator", TRUE, <<>>,
                  <<FatType_U64, FatType_Address>>)

\* new_event_handle(count) = EventHandle::random_handle(count): the key is drawn
\* at random
new_event_handle(count, random_key) ==
    [count |-> count, key |-> [kind |-> "event_key", id |-> random_key]]

WithdrawCapability_new(account_address) == [account_address |-> account_address]
WithdrawCapability_type ==
    FatStructType("LibraAccount", "WithdrawCapability", TRUE, <<>>, <<FatType_Address>>)
\* a capability value that is the bare struct, without the one-element container
WithdrawCapability_value_bare(self) ==
    Struct_pack(<<Value_address(self.account_address)>>)

WithdrawCapability_value(self) ==
    Value_vector_general(<<Struct_pack(<<Value_address(self.account_address)>>)>>)

KeyRotationCapability_new(account_address) == [account_address |-> account_address]
KeyRotationCapability_type ==
    FatStructType("LibraAccount", "KeyRotationCapability", TRUE, <<>>,
                  <<FatType_Address>>)
KeyRotationCapability_value(self) ==
    Value_vector_general(<<Struct_pack(<<Value_address(self.account_address)>>)>>)

----------------------------------------------------------------------------
(* AccountData: one account snapshot                                       *)

AccountData_with_account_and_event_counts(account, balance, balance_currency_code, sequence_number, sent_events_count, received_events_count, account_specifier, is_frozen, rng) ==
    [account_role |-> AccountRole_new(Account_address(account), account_specifier),
     event_generator |->
        EventHandleGenerator_new_with_event_count(Account_address(account), 2),
     withdrawal_capability |-> Some(WithdrawCapability_new(Account_address(account))),
     key_rotation_capability |->
        Some(KeyRotationCapability_new(Account_address(account))),
     account |-> account,
     balances |-> BTreeMap_insert(BTreeMap_new, balance_currency_code,
                                  Balance_new(balance)),
     sequence_number |-> sequence_number,
     is_frozen |-> is_frozen,
     sent_events |-> new_event_handle(sent_events_count, rng.sent_key),
     received_events |-> new_event_handle(received_events_count, rng.received_key),
     role_id |-> AccountRoleSpecifier_id(account_specifier)]

AccountData_with_account(account, balance, balance_currency_code, sequence_number, account_specifier, rng) ==
    AccountData_with_account_and_event_counts(account, balance,
        balance_currency_code, sequence_number, 0, 0, account_specifier, FALSE, rng)

AccountData_new(balance, sequence_number, rng) ==
    AccountData_with_account(Account_new(rng.keypair), balance, lbr_currency_code,
                             sequence_number, "ParentVASP", rng)

AccountData_new_assoc_root(rng) ==
    AccountData_with_account(Account_new(rng.keypair), 0, lbr_currency_code, 0,
                             "AssocRoot", rng)

AccountData_new_unhosted(rng) ==
    AccountData_with_account(Account_new(rng.keypair), 0, lbr_currency_code, 0,
                             "Unhosted", rng)

AccountData_with_keypair(privkey, pubkey, balance, balance_currency_code, sequence_number, account_specifier, rng) ==
    AccountData_with_account(Account_with_keypair(privkey, pubkey), balance,
        balance_currency_code, sequence_number, account_specifier, rng)

\* balances kept in the order of the calls: a new code goes to the end
AccountData_add_balance_currency_push(self, balance_currency_code) ==
    [self EXCEPT !.balances =
        IF balance_currency_code \in BTreeMap_keys(@)
        THEN BTreeMap_insert(@, balance_currency_code, Balance_new(0))
        ELSE Append(@, [key |-> balance_currency_code, value |-> Balance_new(0)])]

\* an add that starts a fresh map for the new code
AccountData_add_balance_currency_fresh_map(self, balance_currency_code) ==
    [self EXCEPT !.balances =
        BTreeMap_insert(BTreeMap_new, balance_currency_code, Balance_new(0))]

AccountData_add_balance_currency(self, balance_currency_code) ==
    [self EXCEPT !.balances = BTreeMap_insert(@, balance_currency_code, Balance_new(0))]

\* a rotation that also re-issues the key-rotation capability for the address
\* of the new public key
AccountData_rotate_key_reissue_capability(self, privkey, pubkey) ==
    [self EXCEPT !.account = Account_rotate_key(@, privkey, pubkey),
                 !.key_rotation_capability =
                     Some(KeyRotationCapability_new(from_public_key(pubkey)))]

\* a rotation that replaces the private key and keeps the old public key
AccountData_rotate_key_private_only(self, privkey, pubkey) ==
    [self EXCEPT !.account.privkey = privkey]

AccountData_rotate_key(self, privkey, pubkey) ==
    [self EXCEPT !.account = Account_rotate_key(@, privkey, pubkey)]

AccountData_sent_payment_event_type ==
    FatStructType("LibraAccount", "SentPaymentEvent", FALSE, <<>>,
                  <<FatType_U64, FatType_Address, FatType_Vector(FatType_U8)>>)

AccountData_received_payment_event_type ==
    FatStructType("LibraAccount", "ReceivedPaymentEvent", FALSE, <<>>,
                  <<FatType_U64, FatType_Address, FatType_Vector(FatType_U8)>>)

AccountData_event_handle_type(ty) ==
    FatStructType("Event", "EventHandle", TRUE, <<ty>>,
                  <<FatType_U64, FatType_Vector(FatType_U8)>>)

AccountData_type ==
    FatStructType("LibraAccount", "LibraAccount", TRUE, <<>>,
        <<FatType_Vector(FatType_U8),
          FatType_Vector(FatType_Struct(WithdrawCapability_type)),
          FatType_Vector(FatType_Struct(KeyRotationCapability_type)),
          FatType_Struct(AccountData_event_handle_type(
              FatType_Struct(AccountData_sent_payment_event_type))),
          FatType_Struct(AccountData_event_handle_type(
              FatType_Struct(AccountData_received_payment_event_type))),
          FatType_U64,
          FatType_Bool,
          FatType_U64>>)

AccountData_account_role(self) == self.account_role.account_specifier
AccountData_address(self) == Account_address(self.account)
AccountData_sequence_number(self) == self.sequence_number
AccountData_sent_events_key(self) == <<self.sent_events.key>>
AccountData_sent_events_count(self) == self.sent_events.count
AccountData_received_events_key(self) == <<self.received_events.key>>
AccountData_received_events_count(self) == self.received_events.count

\* balance: the coin under the code; the unwrap of a missing entry panics
AccountData_balance(self, currency_code) ==
    LET found == unwrap(BTreeMap_get(self.balances, currency_code))
    IN  IF found.t = "returned" THEN Returned(Balance_coin(found.v)) ELSE Panic

\* the balances as to_value collects them: the map iterated in its order
AccountData_balance_values(self) ==
    [i \in 1..Len(self.balances) |->
        [code |-> self.balances[i].key,
         value |-> Balance_to_value(self.balances[i].value)]]

\* the account struct of to_value, field by field as the code packs it
AccountData_account_value(self) ==
    Struct_pack(
        <<Value_vector_u8(AuthenticationKey_to_vec(
              AuthenticationKey_ed25519(self.account.pubkey))),
          WithdrawCapability_value(self.withdrawal_capability.val),
          KeyRotationCapability_value(self.key_rotation_capability.val),
          Struct_pack(<<Value_u64(self.received_events.count),
                        Value_vector_u8(<<self.received_events.key>>)>>),
          Struct_pack(<<Value_u64(self.sent_events.count),
                        Value_vector_u8(<<self.sent_events.key>>)>>),
          Value_u64(self.sequence_number),
          Value_bool(self.is_frozen),
          Value_u64(self.role_id)>>)

\* a to_value that publishes one balance only
AccountData_to_value_one_balance(self) ==
    Returned([balances |-> SubSeq(AccountData_balance_values(self), 1, 1),
              event_generator |-> EventHandleGenerator_to_value(self.event_generator),
              account |-> AccountData_account_value(self)])

\* to_value: (account struct, balances in map order, event generator); the
\* unwrap of an absent capability panics
AccountData_to_value(self) ==
    IF ~self.withdrawal_capability.some \/ ~self.key_rotation_capability.some
    THEN Panic
    ELSE Returned([balances |-> AccountData_balance_values(self),
                   event_generator |->
                       EventHandleGenerator_to_value(self.event_generator),
                   account |-> AccountData_account_value(self)])

AccountData_make_account_access_path(self) ==
    Account_make_account_access_path(self.account)
AccountData_make_balance_access_path(self, code) ==
    Account_make_balance_access_path(self.account, code)
AccountData_make_event_generator_access_path(self) ==
    Account_make_event_generator_access_path(self.account)

WriteOp_Value(bytes) == [t |-> "Value", v |-> bytes]

\* to_writeset: the account entry, one entry per balance in the order to_value
\* gave them, the event generator entry; a failed serialization panics
AccountData_to_writeset(self) ==
    LET blobs == AccountData_to_value(self) IN
    IF blobs.t = "panic" THEN Panic ELSE
    LET account == simple_serialize(blobs.v.account, AccountData_type)
        balance(i) == simple_serialize(blobs.v.balances[i].value, Balance_type)
        event_generator ==
            simple_serialize(blobs.v.event_generator, EventHandleGenerator_type)
        n == Len(blobs.v.balances)
    IN  IF ~account.some \/ ~event_generator.some
           \/ \E i \in 1..n : ~balance(i).some
        THEN Panic
        ELSE Returned(
            <<[path |-> AccountData_make_account_access_path(self),
               op |-> WriteOp_Value(account.val)]>>
            \o [i \in 1..n |->
                  [path |-> AccountData_make_balance_access_path(self,
                                blobs.v.balances[i].code),
                   op |-> WriteOp_Value(balance(i).val)]]
            \o <<[path |-> AccountData_make_event_generator_access_path(self),
                  op |-> WriteOp_Value(event_generator.val)]>>)

----------------------------------------------------------------------------
(* The calls a test makes: constructors, mutators, observers               *)

Call(op, acct, arg, result) == [op |-> op, acct |-> acct, arg |-> arg, result |-> result]
Unit == Returned(<<>>)
NoCall == Call("none", 0, <<>>, Unit)

\* a panic unwinds the test: nothing runs after it
Aborted == out.result.t = "panic"

\* what the random sources give one constructor call: the keypair of
\* Account::new and the keys of the two event handles
Rngs ==
    [keypair : {Keypair(k) : k \in GeneratedKeys},
     sent_key : EventKeys, received_key : EventKeys]

Init ==
    /\ accts = <<>>
    /\ born = <<>>
    /\ out = NoCall
    /\ prev = NoCall

Create(op, data) ==
    /\ ~Aborted
    /\ accts' = Append(accts, data)
    /\ born' = Append(born, [by |-> op, data |-> data, added |-> <<>>])
    /\ out' = Call(op, Len(accts) + 1, <<>>, Unit)
    /\ prev' = NoCall

AddBalanceCurrency(i, code) ==
    /\ ~Aborted
    /\ i \in 1..Len(accts)
    /\ accts' = [accts EXCEPT ![i] = AccountData_add_balance_currency(@, code)]
    /\ out' = Call("add_balance_currency", i,
                   [code |-> code, held |-> BTreeMap_get(accts[i].balances, code)],
                   Unit)
    /\ prev' = NoCall
    /\ born' = IF code \in BTreeMap_keys(accts[i].balances) THEN born
               ELSE [born EXCEPT ![i].added = Append(@, code)]

RotateKey(i, keypair) ==
    /\ ~Aborted
    /\ i \in 1..Len(accts)
    /\ accts' = [accts EXCEPT
                   ![i] = AccountData_rotate_key(@, keypair.privkey, keypair.pubkey)]
    /\ out' = Call("rotate_key", i, keypair, Unit)
    /\ prev' = NoCall
    /\ UNCHANGED born

ToWriteset(i) ==
    /\ ~Aborted
    /\ i \in 1..Len(accts)
    /\ out' = Call("to_writeset", i, <<>>, AccountData_to_writeset(accts[i]))
    /\ prev' = IF out.op = "to_writeset" THEN out ELSE NoCall
    /\ UNCHANGED <<accts, born>>

Balance(i, code) ==
    /\ ~Aborted
    /\ i \in 1..Len(accts)
    /\ out' = Call("balance", i, code, AccountData_balance(accts[i], code))
    /\ prev' = NoCall
    /\ UNCHANGED <<accts, born>>

\* "s".parse::<AccountRoleSpecifier>(): reads no account
FromStr(s) ==
    /\ ~Aborted
    /\ out' = Call("from_str", 0, s, Returned(AccountRoleSpecifier_from_str(s)))
    /\ prev' = NoCall
    /\ UNCHANGED <<accts, born>>

----------------------------------------------------------------------------
(* Spec: one AccountData, every constructor, both mutators, the observers  *)

AllKeys == {0} \cup GeneratedKeys

CallNew ==
    /\ accts = <<>>
    /\ \E balance \in Coins, sequence_number \in Counts, rng \in Rngs :
        Create("AccountData::new", AccountData_new(balance, sequence_number, rng))

CallNewAssocRoot ==
    /\ accts = <<>>
    /\ \E rng \in Rngs :
        Create("AccountData::new_assoc_root", AccountData_new_assoc_root(rng))

CallNewUnhosted ==
    /\ accts = <<>>
    /\ \E rng \in Rngs :
        Create("AccountData::new_unhosted", AccountData_new_unhosted(rng))

CallWithKeypair ==
    /\ accts = <<>>
    /\ \E k \in AllKeys, balance \in Coins, code \in Codes, rng \in Rngs :
        Create("AccountData::with_keypair",
               AccountData_with_keypair(Keypair(k).privkey, Keypair(k).pubkey,
                                        balance, code, 0, "ParentVASP", rng))

CallWithAccount ==
    /\ accts = <<>>
    /\ \E role \in Roles, rng \in Rngs :
        Create("AccountData::with_account",
               AccountData_with_account(Account_new_association, 0,
                                        lbr_currency_code, 0, role, rng))

CallWithAccountAndEventCounts ==
    /\ accts = <<>>
    /\ \E sequence_number \in Counts, sent \in Counts, received \in Counts,
          is_frozen \in Bools, rng \in Rngs :
        Create("AccountData::with_account_and_event_counts",
               AccountData_with_account_and_event_counts(Account_new_blessed_tc,
                   1000000, lbr_currency_code, sequence_number, sent, received,
                   "TreasuryCompliance", is_frozen, rng))

CallAddBalanceCurrency ==
    \E i \in 1..Len(accts), code \in Codes : AddBalanceCurrency(i, code)

CallRotateKey ==
    \E i \in 1..Len(accts), k \in GeneratedKeys : RotateKey(i, Keypair(k))

CallToWriteset == \E i \in 1..Len(accts) : ToWriteset(i)

CallBalance == \E i \in 1..Len(accts), code \in Codes : Balance(i, code)

Next ==
    \/ CallNew
    \/ CallNewAssocRoot
    \/ CallNewUnhosted
    \/ CallWithKeypair
    \/ CallWithAccount
    \/ CallWithAccountAndEventCounts
    \/ CallAddBalanceCurrency
    \/ CallRotateKey
    \/ CallToWriteset
    \/ CallBalance

Spec == Init /\ [][Next]_vars

----------------------------------------------------------------------------
(* Claims checked under Spec                                               *)

Held(i) == BTreeMap_keys(accts[i].balances)
WritesetPaths(ws) == [j \in 1..Len(ws) |-> ws[j].path]

\* C1: whatever calls were made since construction (rotate_key with any
\* keypair included), address() of every AccountData and of its Account is the
\* address the constructor returned.
C1_AddressStable ==
    \A i \in 1..Len(accts) :
        /\ AccountData_address(accts[i]) = AccountData_address(born[i].data)
        /\ Account_address(accts[i].account) = Account_address(born[i].data.account)

\* C1 witness: a key rotation has replaced the public key the account was born with
C1_Witness ==
    /\ out.op = "rotate_key"
    /\ accts[out.acct].account.pubkey # born[out.acct].data.account.pubkey
    /\ accts[out.acct].account.pubkey = out.arg.pubkey

\* C2: add_balance_currency(code) with a code the account already holds leaves
\* the balance stored under that code as it was (a non-zero balance is not reset)
\* and the account holds exactly one Balance for the code.
C2_ReAddKeepsBalance ==
    (out.op = "add_balance_currency" /\ out.arg.held.some) =>
        /\ AccountData_balance(accts[out.acct], out.arg.code)
              = Returned(Balance_coin(out.arg.held.val))
        /\ Cardinality({j \in 1..Len(accts[out.acct].balances) :
                           accts[out.acct].balances[j].key = out.arg.code}) = 1

\* C3: balance(code) for a code the account never held gives the caller a typed
\* not-found failure: it neither panics nor returns an amount.
C3_MissingBalanceIsTypedFailure ==
    (out.op = "balance" /\ out.arg \notin Held(out.acct)) =>
        /\ out.result.t # "panic"
        /\ out.result.t # "returned"

\* C6: to_writeset() of an account holding n codes returns n + 2 entries: the
\* account-resource path first, then one entry at the balance path of each held
\* code, then the event-generator path; the default account of
\* AccountData::new, holding one code, gives 3.
C6_WritesetHasNPlus2Entries ==
    out.op = "to_writeset" =>
        LET d == accts[out.acct]
            n == Cardinality(Held(out.acct))
            ws == out.result.v
        IN  /\ out.result.t = "returned"
            /\ Len(ws) = n + 2
            /\ ws[1].path = AccountData_make_account_access_path(d)
            /\ ws[n + 2].path = AccountData_make_event_generator_access_path(d)
            /\ \A c \in Held(out.acct) :
                  Cardinality({j \in 2..(n + 1) :
                      ws[j].path = AccountData_make_balance_access_path(d, c)}) = 1
            /\ (born[out.acct].by = "AccountData::new" /\ born[out.acct].added = <<>>)
                  => Len(ws) = 3

\* C6 witness: a write-set of five entries from an account holding three codes
C6_Witness ==
    /\ out.op = "to_writeset"
    /\ out.result.t = "returned"
    /\ Cardinality(Held(out.acct)) = 3
    /\ Len(out.result.v) = 5

\* C8: in the write-set of to_writeset(), the entry at the balance path of each
\* held code C, decoded with the Balance layout (one u64), is balance(C).
C8_BalanceRoundTrip ==
    (out.op = "to_writeset" /\ out.result.t = "returned") =>
        LET d == accts[out.acct]
            ws == out.result.v
        IN  \A c \in Held(out.acct) :
              /\ \E j \in 1..Len(ws) :
                    ws[j].path = AccountData_make_balance_access_path(d, c)
              /\ \A j \in 1..Len(ws) :
                    ws[j].path = AccountData_make_balance_access_path(d, c) =>
                        /\ simple_deserialize_u64_struct(ws[j].op.v).some
                        /\ Returned(simple_deserialize_u64_struct(ws[j].op.v).val)
                              = AccountData_balance(d, c)

\* C8 witness: a write-set whose LBR balance entry decodes to 1_000_000 beside a
\* second, zero balance
C8_Witness ==
    /\ out.op = "to_writeset"
    /\ out.result.t = "returned"
    /\ Cardinality(Held(out.acct)) >= 2
    /\ AccountData_balance(accts[out.acct], lbr_currency_code) = Returned(1000000)
    /\ \E j \in 1..Len(out.result.v) :
          /\ out.result.v[j].path =
                AccountData_make_balance_access_path(accts[out.acct], lbr_currency_code)
          /\ simple_deserialize_u64_struct(out.result.v[j].op.v) = Some(1000000)

\* the last n tokens of a serialized value
LastBytes(bytes, n) == SubSeq(bytes, Len(bytes) - n + 1, Len(bytes))

\* C13: the role-specifier ids are the bijection AssocRoot=0,
\* TreasuryCompliance=1, DesignatedDealer=2, Validator=3, ValidatorOperator=4,
\* ParentVASP=5, ChildVASP=6, Unhosted=7, and in every reachable AccountData
\* (after any add_balance_currency and rotate_key calls) the role_id that is
\* serialized, as the last field of the account struct, is account_role().id().
C13_RoleIdIsRoleOfAccount ==
    /\ AccountRoleSpecifier_id("AssocRoot") = 0
    /\ AccountRoleSpecifier_id("TreasuryCompliance") = 1
    /\ AccountRoleSpecifier_id("DesignatedDealer") = 2
    /\ AccountRoleSpecifier_id("Validator") = 3
    /\ AccountRoleSpecifier_id("ValidatorOperator") = 4
    /\ AccountRoleSpecifier_id("ParentVASP") = 5
    /\ AccountRoleSpecifier_id("ChildVASP") = 6
    /\ AccountRoleSpecifier_id("Unhosted") = 7
    /\ {AccountRoleSpecifier_id(r) : r \in Roles} = 0..7
    /\ Cardinality(Roles) = 8
    /\ \A i \in 1..Len(accts) :
          LET id == AccountRoleSpecifier_id(AccountData_account_role(accts[i]))
              fields == AccountData_account_value(accts[i]).v
          IN  /\ accts[i].role_id = id
              /\ fields[Len(fields)] = Value_u64(id)
    /\ (out.op = "to_writeset" /\ out.result.t = "returned") =>
          LastBytes(out.result.v[1].op.v, 8)
              = le_bytes(AccountRoleSpecifier_id(
                             AccountData_account_role(accts[out.acct])), 8)

\* C13 witness: the write-set of a ChildVASP account after a key rotation and
\* a new currency, ending in the bytes of 6
C13_Witness ==
    /\ out.op = "to_writeset"
    /\ out.result.t = "returned"
    /\ AccountData_account_role(accts[out.acct]) = "ChildVASP"
    /\ accts[out.acct].account.pubkey # born[out.acct].data.account.pubkey
    /\ born[out.acct].added # <<>>
    /\ LastBytes(out.result.v[1].op.v, 8) = le_bytes(6, 8)

\* C15: add_balance_currency(code) with a code the account does not yet hold
\* makes balance(code) = 0, increases the number of held currencies by exactly
\* one, and leaves the balance of every other held currency unchanged.
C15_AddNewCurrency ==
    [][(/\ out'.op = "add_balance_currency"
        /\ out'.arg.code \notin Held(out'.acct)) =>
          LET i == out'.acct
              code == out'.arg.code
          IN  /\ AccountData_balance(accts'[i], code) = Returned(0)
              /\ Len(accts'[i].balances) = Len(accts[i].balances) + 1
              /\ BTreeMap_keys(accts'[i].balances) = Held(i) \cup {code}
              /\ Cardinality(BTreeMap_keys(accts'[i].balances))
                    = Cardinality(Held(i)) + 1
              /\ \A other \in Held(i) :
                    AccountData_balance(accts'[i], other)
                        = AccountData_balance(accts[i], other)]_vars

\* C15 witness: a third currency added to an account that holds 1_000_000 LBR
\* and zero of a second currency
C15_Witness ==
    /\ out.op = "add_balance_currency"
    /\ ~out.arg.held.some
    /\ Held(out.acct) = Codes
    /\ AccountData_balance(accts[out.acct], out.arg.code) = Returned(0)
    /\ AccountData_balance(accts[out.acct], lbr_currency_code) = Returned(1000000)
    /\ out.arg.code # lbr_currency_code

\* the value of one event handle: (count, key bytes)
EventHandleValue(handle) ==
    Struct_pack(<<Value_u64(handle.count), Value_vector_u8(<<handle.key>>)>>)

\* a capability as to_value must give it: a one-element container of a struct
\* holding the address
CapabilityValue(address) ==
    Value_vector_general(<<Struct_pack(<<Value_address(address)>>)>>)

\* C16: for every reachable AccountData the account value of to_value() has
\* exactly eight fields in this order: authentication key bytes, withdraw
\* capability (one-element container of a struct holding the address),
\* key-rotation capability (same shape), two event-handle structs (count, key
\* bytes), sequence number, frozen flag, role id; each field serializes under
\* the type at the same position of AccountData::type_(), so to_writeset()
\* never fails.
C16_AccountValueMatchesType ==
    /\ \A i \in 1..Len(accts) :
          LET d == accts[i]
              blobs == AccountData_to_value(d)
              fields == blobs.v.account.v
              layout == AccountData_type.layout
          IN  /\ blobs.t = "returned"
              /\ blobs.v.account.t = "struct"
              /\ Len(fields) = 8
              /\ Len(layout) = 8
              /\ fields[1] = Value_vector_u8(Account_auth_key(d.account))
              /\ fields[2] = CapabilityValue(AccountData_address(d))
              /\ fields[3] = CapabilityValue(AccountData_address(d))
              /\ {fields[4], fields[5]}
                    = {EventHandleValue(d.sent_events),
                       EventHandleValue(d.received_events)}
              /\ fields[6] = Value_u64(AccountData_sequence_number(d))
              /\ fields[7] = Value_bool(d.is_frozen)
              /\ fields[8] = Value_u64(d.role_id)
              /\ \A j \in 1..8 : serialize_value(fields[j], layout[j]).some
              /\ simple_serialize(blobs.v.account, AccountData_type).some
    /\ out.op = "to_writeset" => out.result.t = "returned"

\* C16 witness: the write-set of a frozen account with a non-zero sequence
\* number and rotated keys
C16_Witness ==
    /\ out.op = "to_writeset"
    /\ out.result.t = "returned"
    /\ accts[out.acct].is_frozen
    /\ accts[out.acct].sequence_number # 0
    /\ accts[out.acct].account.pubkey # born[out.acct].data.account.pubkey
    /\ Len(AccountData_account_value(accts[out.acct]).v) = 8

\* the payment event the layout declares for the event handle at a slot
DeclaredEvent(slot) == AccountData_type.layout[slot].of.ty_args[1].of.name

\* C17: in the account struct of to_value(), the event handle in the slot that
\* AccountData::type_() declares as the sent-payment event handle carries
\* sent_events_count() and sent_events_key(), and the slot declared as the
\* received-payment event handle carries received_events_count() and
\* received_events_key(), for every pair of initial counts.
C17_EventHandlesInDeclaredSlots ==
    \A i \in 1..Len(accts) :
        LET d == accts[i]
            fields == AccountData_account_value(d).v
        IN  \A slot \in {4, 5} :
              /\ DeclaredEvent(slot) = "SentPaymentEvent" =>
                    fields[slot] =
                        Struct_pack(<<Value_u64(AccountData_sent_events_count(d)),
                                      Value_vector_u8(AccountData_sent_events_key(d))>>)
              /\ DeclaredEvent(slot) = "ReceivedPaymentEvent" =>
                    fields[slot] =
                        Struct_pack(<<Value_u64(AccountData_received_events_count(d)),
                                      Value_vector_u8(
                                          AccountData_received_events_key(d))>>)

\* the leading tokens of a serialized account struct: its authentication-key
\* field, a byte vector of the two halves of the key
AuthKeyField(pubkey) ==
    LET ak == AuthenticationKey_to_vec(AuthenticationKey_ed25519(pubkey))
    IN  <<[t |-> "len", v |-> chunks_len(ak)]>>
            \o [j \in 1..Len(ak) |-> [t |-> "chunk", v |-> ak[j]]]

\* C18: after rotate_key(newPriv, newPub) the authentication-key field of the
\* account struct that to_writeset() serializes is the authentication key of
\* newPub, the current key, and every access path of the write-set is the same
\* as before the rotation.
C18_RotationChangesAuthKeyNotPaths ==
    [][/\ out'.op = "rotate_key" =>
            \E before \in {AccountData_to_writeset(accts[out'.acct])},
               after \in {AccountData_to_writeset(accts'[out'.acct])} :
                /\ before.t = "returned"
                /\ after.t = "returned"
                /\ WritesetPaths(after.v) = WritesetPaths(before.v)
                /\ SubSeq(after.v[1].op.v, 1, 3) = AuthKeyField(out'.arg.pubkey)
       /\ out'.op = "to_writeset" =>
            /\ out'.result.t = "returned"
            /\ SubSeq(out'.result.v[1].op.v, 1, 3)
                  = AuthKeyField(accts'[out'.acct].account.pubkey)
            /\ \A j \in 1..Len(out'.result.v) :
                  out'.result.v[j].path.address
                      = AccountData_address(born'[out'.acct].data)]_vars

\* C18 witness: a write-set taken after a rotation to a key other than the
\* original one, carrying the new key's authentication key under the paths of
\* the original address
C18_Witness ==
    /\ out.op = "to_writeset"
    /\ out.result.t = "returned"
    /\ accts[out.acct].account.pubkey # born[out.acct].data.account.pubkey
    /\ SubSeq(out.result.v[1].op.v, 1, 3)
          = AuthKeyField(accts[out.acct].account.pubkey)
    /\ SubSeq(out.result.v[1].op.v, 1, 3)
          # AuthKeyField(born[out.acct].data.account.pubkey)
    /\ WritesetPaths(out.result.v)
          = WritesetPaths(AccountData_to_writeset(
                [accts[out.acct] EXCEPT !.account = born[out.acct].data.account]).v)

\* what neither mutator may touch
Frame(d) ==
    [sequence_number |-> d.sequence_number,
     is_frozen |-> d.is_frozen,
     account_role |-> d.account_role,
     role_id |-> d.role_id,
     sent_events |-> d.sent_events,
     received_events |-> d.received_events,
     event_generator |-> d.event_generator,
     withdrawal_capability |-> d.withdrawal_capability,
     key_rotation_capability |-> d.key_rotation_capability]

Mutators == {"add_balance_currency", "rotate_key"}

\* C19: across any sequence of add_balance_currency and rotate_key calls the
\* sequence number, frozen flag, role, sent/received event counts and keys,
\* event-generator counter and owner, and both capabilities (always present
\* and wrapping the account address) keep the values set at construction;
\* rotate_key also leaves every balance unchanged and add_balance_currency
\* leaves the keypair unchanged.
C19_MutatorFrame ==
    [][out'.op \in Mutators =>
        LET i == out'.acct
            d == accts'[i]
        IN  /\ Frame(d) = Frame(accts[i])
            /\ Frame(d) = Frame(born'[i].data)
            /\ d.withdrawal_capability
                  = Some(WithdrawCapability_new(AccountData_address(d)))
            /\ d.key_rotation_capability
                  = Some(KeyRotationCapability_new(AccountData_address(d)))
            /\ d.event_generator.addr = AccountData_address(d)
            /\ AccountData_address(d) = AccountData_address(born'[i].data)
            /\ out'.op = "rotate_key" => d.balances = accts[i].balances
            /\ out'.op = "add_balance_currency" =>
                  /\ d.account = accts[i].account
                  /\ d.account.privkey = accts[i].account.privkey
                  /\ d.account.pubkey = accts[i].account.pubkey]_vars

\* C19 witness: a rotation to a new key on a frozen account built with a
\* non-zero sequence number and different event counts, after a currency was
\* added; the construction values are still there
C19_Witness ==
    /\ out.op = "rotate_key"
    /\ born[out.acct].added # <<>>
    /\ accts[out.acct].account.pubkey # born[out.acct].data.account.pubkey
    /\ accts[out.acct].is_frozen
    /\ accts[out.acct].sequence_number # 0
    /\ accts[out.acct].sent_events.count # accts[out.acct].received_events.count
    /\ Frame(accts[out.acct]) = Frame(born[out.acct].data)

----------------------------------------------------------------------------
(* SpecRole: role specifiers parsed from strings, and accounts of every     *)
(* role built and serialized                                                *)

\* the strings handed to the parser: the three it knows, and near misses
RoleStrings ==
    {"empty", "unhosted", "vasp", "", "Empty", "VASP", "vasp ", "parent_vasp",
     "ParentVASP", "AssocRoot", "default", "treasury_compliance"}

CallFromStr == \E s \in RoleStrings : FromStr(s)

NextRole ==
    \/ CallFromStr
    \/ CallWithAccount
    \/ CallToWriteset

SpecRole == Init /\ [][NextRole]_vars

RecognisedRoleStrings == {"empty", "unhosted", "vasp"}

\* C12: parsing a role specifier string gives "empty" -> AssocRoot,
\* "unhosted" -> Unhosted, "vasp" -> ParentVASP, and an error value for every
\* other string: an unrecognised string is never turned into a role (the
\* default one included) and the parser never aborts.
C12_UnrecognisedRoleIsError ==
    out.op = "from_str" =>
        /\ out.result.t = "returned"
        /\ out.arg = "empty" => out.result.v = Ok("AssocRoot")
        /\ out.arg = "unhosted" => out.result.v = Ok("Unhosted")
        /\ out.arg = "vasp" => out.result.v = Ok("ParentVASP")
        /\ out.arg \notin RecognisedRoleStrings =>
              /\ ~out.result.v.ok
              /\ out.result.v.val = <<>>
              /\ out.result.v.err # <<>>

\* C12 witness: the name of the default role's variant, which the parser does
\* not know, parsed after an account was built
C12_Witness ==
    /\ out.op = "from_str"
    /\ out.arg = "ParentVASP"
    /\ ~out.result.v.ok
    /\ out.arg \in {out.result.v.err[j] : j \in 1..Len(out.result.v.err)}
    /\ accts # <<>>

----------------------------------------------------------------------------
(* SpecPair: two AccountData side by side, built by new and new_assoc_root  *)
(* (the event keys drawn are fixed to one value), currencies added in any   *)
(* order, write-sets taken of both                                          *)

PairRngs ==
    [keypair : {Keypair(k) : k \in GeneratedKeys}, sent_key : {1}, received_key : {1}]

PairNew ==
    /\ Len(accts) < 2
    /\ \E balance \in Coins, rng \in PairRngs :
        Create("AccountData::new", AccountData_new(balance, 0, rng))

PairNewAssocRoot ==
    /\ Len(accts) < 2
    /\ \E rng \in PairRngs :
        Create("AccountData::new_assoc_root", AccountData_new_assoc_root(rng))

NextPair ==
    \/ PairNew
    \/ PairNewAssocRoot
    \/ CallAddBalanceCurrency
    \/ CallToWriteset

SpecPair == Init /\ [][NextPair]_vars

\* C4: every account of AccountData::new_assoc_root has the well-known
\* association address and the genesis public key, so any two of them agree on
\* both; its balance is zero, its sequence number 0, its role AssocRoot.
C4_AssocRootIsWellKnown ==
    \A i \in 1..Len(born) :
        born[i].by = "AccountData::new_assoc_root" =>
            /\ AccountData_address(born[i].data) = association_address
            /\ born[i].data.account.pubkey = GENESIS_KEYPAIR.pubkey
            /\ \A j \in 1..Len(born) :
                  born[j].by = "AccountData::new_assoc_root" =>
                      /\ AccountData_address(born[j].data)
                            = AccountData_address(born[i].data)
                      /\ born[j].data.account.pubkey = born[i].data.account.pubkey
            /\ AccountData_balance(born[i].data, lbr_currency_code) = Returned(0)
            /\ AccountData_sequence_number(born[i].data) = 0
            /\ AccountData_account_role(born[i].data) = "AssocRoot"

\* C5: two to_writeset() calls on one account with no mutation in between
\* return the same entries in the same order, and two accounts of one address
\* holding the same codes list their paths in the same order, whatever the
\* order in which the codes were added.
C5_WritesetDeterministic ==
    (out.op = "to_writeset" /\ prev.op = "to_writeset") =>
        /\ out.acct = prev.acct => out.result = prev.result
        /\ (/\ AccountData_address(accts[out.acct]) = AccountData_address(accts[prev.acct])
            /\ Held(out.acct) = Held(prev.acct))
              => /\ out.result.t = "returned"
                 /\ prev.result.t = "returned"
                 /\ WritesetPaths(out.result.v) = WritesetPaths(prev.result.v)

\* C5 witness: write-sets of two accounts of one address that got the same
\* three codes in different orders
C5_Witness ==
    /\ out.op = "to_writeset"
    /\ prev.op = "to_writeset"
    /\ out.acct # prev.acct
    /\ AccountData_address(accts[out.acct]) = AccountData_address(accts[prev.acct])
    /\ Held(out.acct) = Codes
    /\ Held(prev.acct) = Codes
    /\ born[out.acct].added # born[prev.acct].added

PathsOf(d) ==
    {AccountData_make_account_access_path(d),
     AccountData_make_event_generator_access_path(d)}
        \cup {AccountData_make_balance_access_path(d, c) : c \in Codes}

\* C7: for one address the account path, the event-generator path and the
\* balance paths of the codes are pairwise distinct; the paths of two accounts
\* of different addresses are disjoint; no two entries of a write-set share a
\* path.
C7_PathsUnique ==
    /\ \A i \in 1..Len(accts) :
          /\ Cardinality(PathsOf(accts[i])) = 2 + Cardinality(Codes)
          /\ \A j \in 1..Len(accts) :
                AccountData_address(accts[i]) # AccountData_address(accts[j])
                    => PathsOf(accts[i]) \cap PathsOf(accts[j]) = {}
    /\ (out.op = "to_writeset" /\ out.result.t = "returned") =>
          \A j, k \in 1..Len(out.result.v) :
              j # k => out.result.v[j].path # out.result.v[k].path

\* C7 witness: two accounts of different addresses, and a write-set holding
\* two balance entries
C7_Witness ==
    /\ Len(accts) = 2
    /\ AccountData_address(accts[1]) # AccountData_address(accts[2])
    /\ out.op = "to_writeset"
    /\ out.result.t = "returned"
    /\ Len(out.result.v) >= 4

----------------------------------------------------------------------------
(* SpecTxn: one account (any Account constructor, keys rotated) and the     *)
(* transaction builders                                                     *)

TxnAccounts ==
    {Account_new(Keypair(k)) : k \in GeneratedKeys}
        \cup {Account_with_keypair(GENESIS_KEYPAIR.privkey, GENESIS_KEYPAIR.pubkey),
              Account_new_association, Account_new_blessed_tc}

\* the senders handed to the builders that take one
Senders == {association_address, from_public_key(Keypair(1).pubkey)}

Payloads ==
    {TransactionPayload_Script(Script_new("program", <<>>, <<>>)),
     TransactionPayload_Module("module"),
     TransactionPayload_WriteSet("change_set")}
GasAmounts == {0, TXN_RESERVED * 2}
GasPrices == {0, 1}

\* the arguments of a builder call beside the sender
TxnArgs ==
    [payload : Payloads, sequence_number : Counts, max_gas_amount : GasAmounts,
     gas_unit_price : GasPrices, gas_currency_code : {LBR_NAME}]
ScriptArgs == {a \in TxnArgs : a.payload.t = "Script"}

\* a call record's arguments: the sender used and the rest
WithSender(a, sender) ==
    [sender |-> sender, payload |-> a.payload, sequence_number |-> a.sequence_number,
     max_gas_amount |-> a.max_gas_amount, gas_unit_price |-> a.gas_unit_price,
     gas_currency_code |-> a.gas_currency_code]

TxnRng == [keypair |-> Keypair(1), sent_key |-> 1, received_key |-> 1]

TxnWithAccount ==
    /\ accts = <<>>
    /\ \E account \in TxnAccounts :
        Create("AccountData::with_account",
               AccountData_with_account(account, 0, lbr_currency_code, 0,
                                        "ParentVASP", TxnRng))

Build(op, i, arg, result) ==
    /\ ~Aborted
    /\ out' = Call(op, i, arg, result)
    /\ prev' = NoCall
    /\ UNCHANGED <<accts, born>>

Signer(i) == accts[i].account

CallCreateUserTxn ==
    \E i \in 1..Len(accts), a \in TxnArgs :
        Build("create_user_txn", i, WithSender(a, Account_address(Signer(i))),
              Account_create_user_txn(Signer(i), a.payload, a.sequence_number,
                  a.max_gas_amount, a.gas_unit_price, a.gas_currency_code))

CallCreateRawUserTxn ==
    /\ ~Aborted
    /\ \E sender \in Senders, a \in TxnArgs :
        Build("create_raw_user_txn", 0, WithSender(a, sender),
              Returned(Account_create_raw_user_txn(sender, a.payload,
                  a.sequence_number, a.max_gas_amount, a.gas_unit_price,
                  a.gas_currency_code)))

CallCreateSignedTxnWithArgs ==
    \E i \in 1..Len(accts), a \in ScriptArgs :
        Build("create_signed_txn_with_args", i,
              WithSender(a, Account_address(Signer(i))),
              Account_create_signed_txn_with_args(Signer(i), a.payload.v.code,
                  a.payload.v.ty_args, a.payload.v.args, a.sequence_number,
                  a.max_gas_amount, a.gas_unit_price, a.gas_currency_code))

CallCreateRawTxnWithArgs ==
    /\ ~Aborted
    /\ \E sender \in Senders, a \in ScriptArgs :
        Build("create_raw_txn_with_args", 0, WithSender(a, sender),
              Returned(Account_create_raw_txn_with_args(sender, a.payload.v.code,
                  a.payload.v.ty_args, a.payload.v.args, a.sequence_number,
                  a.max_gas_amount, a.gas_unit_price, a.gas_currency_code)))

CallCreateSignedTxnWithArgsAndSender ==
    \E i \in 1..Len(accts), sender \in Senders, a \in ScriptArgs :
        Build("create_signed_txn_with_args_and_sender", i, WithSender(a, sender),
              Account_create_signed_txn_with_args_and_sender(Signer(i), sender,
                  a.payload.v.code, a.payload.v.ty_args, a.payload.v.args,
                  a.sequence_number, a.max_gas_amount, a.gas_unit_price,
                  a.gas_currency_code))

CallCreateRawTxnWithArgsAndSender ==
    /\ ~Aborted
    /\ \E sender \in Senders, a \in ScriptArgs :
        Build("create_raw_txn_with_args_and_sender", 0, WithSender(a, sender),
              Returned(Account_create_raw_txn_with_args_and_sender(sender,
                  a.payload.v.code, a.payload.v.ty_args, a.payload.v.args,
                  a.sequence_number, a.max_gas_amount, a.gas_unit_price,
                  a.gas_currency_code)))

CallCreateSignedTxnImpl ==
    \E i \in 1..Len(accts), sender \in Senders, a \in TxnArgs :
        Build("create_signed_txn_impl", i, WithSender(a, sender),
              Account_create_signed_txn_impl(Signer(i), sender, a.payload,
                  a.sequence_number, a.max_gas_amount, a.gas_unit_price,
                  a.gas_currency_code))

CallSignedScriptTxn ==
    \E i \in 1..Len(accts), a \in ScriptArgs :
        /\ a.max_gas_amount = TXN_RESERVED * 2
        /\ a.gas_unit_price = 0
        /\ Build("signed_script_txn", i, WithSender(a, Account_address(Signer(i))),
                 Account_signed_script_txn(Signer(i), a.payload.v, a.sequence_number))

CallCreateRawTxnImpl ==
    /\ ~Aborted
    /\ \E sender \in Senders, a \in TxnArgs :
        Build("create_raw_txn_impl", 0, WithSender(a, sender),
              Returned(Account_create_raw_txn_impl(sender, a.payload,
                  a.sequence_number, a.max_gas_amount, a.gas_unit_price,
                  a.gas_currency_code)))

NextTxn ==
    \/ TxnWithAccount
    \/ CallRotateKey
    \/ CallCreateUserTxn
    \/ CallCreateRawUserTxn
    \/ CallCreateSignedTxnWithArgs
    \/ CallCreateRawTxnWithArgs
    \/ CallCreateSignedTxnWithArgsAndSender
    \/ CallCreateRawTxnWithArgsAndSender
    \/ CallCreateSignedTxnImpl
    \/ CallSignedScriptTxn
    \/ CallCreateRawTxnImpl

SpecTxn == Init /\ [][NextTxn]_vars

OwnSenderBuilders ==
    {"create_user_txn", "create_signed_txn_with_args", "signed_script_txn"}
GivenSenderBuilders ==
    {"create_signed_txn_with_args_and_sender", "create_signed_txn_impl"}
SignedBuilders == OwnSenderBuilders \cup GivenSenderBuilders
RawBuilders ==
    {"create_raw_user_txn", "create_raw_txn_with_args",
     "create_raw_txn_with_args_and_sender", "create_raw_txn_impl"}

\* the raw transaction of the last builder call
BuiltRaw == IF out.op \in SignedBuilders THEN out.result.v.raw_txn ELSE out.result.v

\* the raw transaction the builder of the last call gives for arguments a
RawFor(op, a) ==
    IF op \in {"create_user_txn", "create_raw_user_txn"}
    THEN Account_create_raw_user_txn(a.sender, a.payload, a.sequence_number,
             a.max_gas_amount, a.gas_unit_price, a.gas_currency_code)
    ELSE Account_create_raw_txn_impl(a.sender, a.payload, a.sequence_number,
             a.max_gas_amount, a.gas_unit_price, a.gas_currency_code)

\* C9: every signed-transaction builder returns a transaction whose signature
\* verifies against the signer's current public key and whose sender is the
\* account's own address (create_user_txn, create_signed_txn_with_args,
\* signed_script_txn) or exactly the address the caller gave
\* (create_signed_txn_with_args_and_sender, create_signed_txn_impl), also when
\* that address is not the signer's.
C9_SignedBySignerSentBySender ==
    out.op \in SignedBuilders =>
        /\ out.result.t = "returned"
        /\ SignedTransaction_check_signature(out.result.v)
        /\ verify_signature(Signer(out.acct).pubkey, out.result.v.raw_txn,
                            out.result.v.signature)
        /\ out.op \in OwnSenderBuilders =>
              SignedTransaction_sender(out.result.v) = Account_address(Signer(out.acct))
        /\ out.op \in GivenSenderBuilders =>
              SignedTransaction_sender(out.result.v) = out.arg.sender

\* C9 witness: after a key rotation, create_signed_txn_with_args_and_sender with
\* a sender that is not the signer's address
C9_Witness ==
    /\ out.op = "create_signed_txn_with_args_and_sender"
    /\ out.result.t = "returned"
    /\ out.arg.sender # Account_address(Signer(out.acct))
    /\ Signer(out.acct).pubkey # born[out.acct].data.account.pubkey
    /\ SignedTransaction_sender(out.result.v) = out.arg.sender

\* C10 as claimed: with a write-set payload, each of create_user_txn,
\* create_raw_user_txn, create_signed_txn_impl and create_raw_txn_impl builds
\* the same raw transaction whatever max_gas_amount and gas_unit_price are.
C10_WriteSetIgnoresGasEveryBuilder ==
    (/\ out.op \in {"create_user_txn", "create_raw_user_txn",
                    "create_signed_txn_impl", "create_raw_txn_impl"}
     /\ out.arg.payload.t = "WriteSet") =>
        \A g \in GasAmounts, p \in GasPrices :
            RawFor(out.op, [out.arg EXCEPT !.max_gas_amount = g,
                                           !.gas_unit_price = p]) = BuiltRaw

\* C10 amended: with a write-set payload, create_user_txn and
\* create_raw_user_txn build the same raw transaction whatever max_gas_amount
\* and gas_unit_price are; create_signed_txn_impl and create_raw_txn_impl put
\* the two values given into the raw transaction.
C10_WriteSetIgnoresGasUserTxn ==
    /\ (/\ out.op \in {"create_user_txn", "create_raw_user_txn"}
        /\ out.arg.payload.t = "WriteSet") =>
          \A g \in GasAmounts, p \in GasPrices :
              RawFor(out.op, [out.arg EXCEPT !.max_gas_amount = g,
                                             !.gas_unit_price = p]) = BuiltRaw
    /\ (/\ out.op \in {"create_signed_txn_impl", "create_raw_txn_impl"}
        /\ out.arg.payload.t = "WriteSet") =>
          /\ BuiltRaw.max_gas_amount = out.arg.max_gas_amount
          /\ BuiltRaw.gas_unit_price = out.arg.gas_unit_price

\* C10 witness: create_user_txn with a write-set payload, a non-zero gas
\* amount and a non-zero gas price
C10_Witness ==
    /\ out.op = "create_user_txn"
    /\ out.arg.payload.t = "WriteSet"
    /\ out.arg.max_gas_amount # 0
    /\ out.arg.gas_unit_price # 0
    /\ out.result.t = "returned"
    /\ BuiltRaw.payload = out.arg.payload

AllBuilders == SignedBuilders \cup RawBuilders

\* C11: every raw transaction built with a script or module payload, by any
\* builder and for any sender, sequence number and gas parameters, expires
\* exactly DEFAULT_EXPIRATION_TIME = 40,000 seconds from time zero; the
\* expiration is the same for every sequence number, sender and gas input.
C11_FixedExpiration ==
    (/\ out.op \in AllBuilders
     /\ out.arg.payload.t \in {"Script", "Module"}) =>
        /\ out.result.t = "returned"
        /\ BuiltRaw.expiration_time = Duration_from_secs(40000)
        /\ BuiltRaw.expiration_time = Duration_from_secs(DEFAULT_EXPIRATION_TIME)
        /\ \A n \in Counts, g \in GasAmounts, p \in GasPrices, sender \in Senders :
              RawFor(out.op, [out.arg EXCEPT !.sequence_number = n,
                                             !.max_gas_amount = g,
                                             !.gas_unit_price = p,
                                             !.sender = sender]).expiration_time
                  = BuiltRaw.expiration_time

\* C11 witness: a module transaction of create_signed_txn_impl with a non-zero
\* sequence number, non-zero gas and a sender that is not the signer
C11_Witness ==
    /\ out.op = "create_signed_txn_impl"
    /\ out.arg.payload.t = "Module"
    /\ out.arg.sequence_number # 0
    /\ out.arg.max_gas_amount # 0
    /\ out.arg.sender # Account_address(Signer(out.acct))
    /\ out.result.t = "returned"
    /\ BuiltRaw.expiration_time = Duration_from_secs(40000)

\* C14: for every Account whose keys were never rotated, whichever constructor
\* made it (new, with_keypair, new_genesis_account, new_association,
\* new_blessed_tc), auth_key() and the address are derived from one public
\* key: the address is the one derived from the key that auth_key() digests.
C14_AuthKeyIsAddressBeforeRotation ==
    \A i \in 1..Len(born) :
        LET account == born[i].data.account
        IN  \E k \in AllKeys :
              /\ Account_auth_key(account)
                    = AuthenticationKey_to_vec(
                          AuthenticationKey_ed25519(Ed25519PublicKey(k)))
              /\ Account_address(account) = from_public_key(Ed25519PublicKey(k))

====
